---- MODULE Spec2Model ----
(***************************************************************************)
(* Model of the Spotify OAuth token lifecycle of spotify-podcast-skill:    *)
(* SpotifyAuth (scripts/server-src/auth/spotifyAuth.ts), the programs that *)
(* construct it (auth-cli.ts and index.ts), and their environment: the     *)
(* wall clock, the token file, the token endpoint and the browser.         *)
(*                                                                         *)
(* Optional values are sequences of length 0 or 1: <<>> is null/absent.    *)
(* refresh_token 0 is a missing (undefined/empty, i.e. falsy) token, and    *)
(* access_token Undefined is a missing access_token property.              *)
(* Query parameters are 0 (absent, searchParams.get gives null), 1 (the    *)
(* empty string) or a larger number (a non-empty string).                  *)
(***************************************************************************)
EXTENDS Integers, Sequences, FiniteSets, TLC

VARIABLES now, file, proc, tokenData, calls, requests, issued, att, hv, exit,
          ev, tool

vars ==
  <<now, file, proc, tokenData, calls, requests, issued, att, hv, exit, ev,
    tool>>

(* ------------------------------ bounds --------------------------------- *)

\* Token-endpoint requests (refreshes and code exchanges) sent in one run.
MaxRequests == 2

\* The latest clock value (ms) at which an authorization attempt starts.
MaxStart == 1000

\* Listeners of earlier authenticate() calls that still have connections
\* open when a further authenticate() call is made.
MaxOld == 1

\* Connections open to one listener at a time.
MaxConns == 2

\* Call slots: getAccessToken()/refreshAccessToken() calls that may overlap.
Calls == {1, 2}

\* Clock values (ms) of the token lifecycle: around the validity boundary
\* of the records the model builds, and long after it.
Instants == {0, 999, 1000, 1001, 300000}

\* Clock values (ms) of the authorization flow: before and at the 5-minute
\* callback timeout.
AuthInstants == {0, 1000, 300000}

\* expires_in (seconds) of token responses.
ExpiresInSet == {60, 61}

\* refresh_token of a refresh response: 0 when the response omits it.
RespRefreshTokens == {0, 2}

\* refresh_token of a code-exchange response: always present.
ExchangeRefreshTokens == {1}

\* Error detail in a failed token-endpoint response: 0 when there is none
\* (a network error, an empty body), else the error the endpoint names.
Details == {0, 7}

\* CSRF state values generateState() may produce.
StateValues == {2, 3}

\* Values of the error and code query parameters: absent, empty, non-empty.
ParamValues == {0, 1, 2}

\* Values of the state query parameter: absent, or a state value.
StateParams == {0} \cup StateValues

\* Requests to the callback server: /callback with its three query
\* parameters, another path (whose query the handler never reads), and a
\* request whose target or Host header does not parse as a URL ("invalid":
\* GET //, or Host: a b).
Requests ==
  {<<"/callback", error, state, code>> :
     error \in ParamValues, state \in StateParams, code \in ParamValues}
  \cup {<<"/other", 0, 0, 0>>, <<"invalid", 0, 0, 0>>}

\* What the URL of a request to the callback server can be.
Paths == {r[1] : r \in Requests}

(* --------------------------- program constants ------------------------- *)

VALIDITY_BUFFER == 60000

CALLBACK_TIMEOUT == 300000

(* ------------------------------ data ----------------------------------- *)

Null == <<>>

NoFile == <<>>

TokenRec(at, rt, exp) ==
  [access_token |-> at, refresh_token |-> rt, expires_at |-> exp,
   token_type |-> "Bearer", scope |-> "user-library-read"]

\* What reading a property the parsed file content does not have gives.
Undefined == -1

\* JSON.stringify(this.tokenData, null, 2): the file content.
Stringify(td) == [kind |-> "json", value |-> td]

Garbage == [kind |-> "garbage", value |-> Null]

\* Truthiness of a query parameter or of a refresh_token.
Truthy(v) == v > 1

HasRefreshToken(td) == td # Null /\ td[1].refresh_token # 0

\* loadTokens(): tokenData starts null; an existing file is read and parsed,
\* a parse failure is caught and leaves null.
LoadTokens(f) ==
  IF f = NoFile THEN Null
  ELSE IF f[1].kind = "json" THEN f[1].value
  ELSE Null

\* What writeFileSync does: it writes the file; or it fails before the
\* file is opened for writing (no permission, read-only file system); or
\* it fails after the open has truncated the file (disk full, I/O error),
\* which leaves no or a part of the JSON text.
WriteOutcomes == {"written", "refused", "truncated"}

\* saveTokens(): writeFileSync of the serialized record; a write error is
\* caught and logged.
SaveTokens(f, td, write) ==
  IF write = "written" THEN <<Stringify(td)>>
  ELSE IF write = "truncated" THEN <<Garbage>>
  ELSE f

HasValidTokens_Inclusive(td, t) ==
  IF td = Null THEN FALSE
  ELSE td[1].expires_at >= t + VALIDITY_BUFFER

\* hasValidTokens()
HasValidTokens(td, t) ==
  IF td = Null THEN FALSE
  ELSE td[1].expires_at > t + VALIDITY_BUFFER

NeedsRefresh_Strict(td, t) == td[1].expires_at < t + VALIDITY_BUFFER

\* The refresh test of getAccessToken().
NeedsRefresh(td, t) == td[1].expires_at <= t + VALIDITY_BUFFER

(* ------------------------------ calls ---------------------------------- *)

\* A call slot: the operation, where it stands, what it returned or the
\* error it threw (err, and detail: the endpoint's error detail the Error
\* carries, 0 for none), how many token-endpoint requests it has sent, and,
\* for a call made by the request interceptor of the API client, the
\* Authorization header of the API request sent with its result.
IdleCall ==
  [op |-> "none", status |-> "idle", value |-> 0, err |-> "", detail |-> 0,
   sent |-> 0, auth |-> <<>>]

NewCall(o, st, v, e, s) ==
  [op |-> o, status |-> st, value |-> v, err |-> e, detail |-> 0, sent |-> s,
   auth |-> <<>>]

\* The authorization attempt of the latest authenticate() call: its phase
\* ("resuming" from the moment the promise of waitForCallback() is settled
\* until authenticate() goes on after its await), listener (bound), timer,
\* the promise of waitForCallback() (wfc), what the handler read and served;
\* pipe, while authenticate() is about to resume, the kind of the connection
\* that carried the request just handled; the connections open to its listener: how many
\* have sent nothing yet (conn), how many have a request that was never
\* answered (hung), and whether there is one whose last request was
\* answered (idle; never more than one, since the handler that answers a
\* request calls server.close(), which destroys every other such
\* connection); prior, the number of earlier authenticate() calls of the
\* process whose code exchange is still pending; and old, the listeners of
\* earlier authenticate() calls that still have connections open, in the
\* order of the calls, each with the instant its timer is due (0 when the
\* timer has fired) and its connections.
IdleAtt ==
  [phase |-> "idle", expected |-> 0, bound |-> FALSE, conn |-> 0,
   timer |-> FALSE, due |-> 0, wfc |-> "pending", outcome |-> "",
   detail |-> 0,
   exchanges |-> 0, cb |-> <<>>, page |-> "", late |-> FALSE, prior |-> 0,
   hung |-> 0, idle |-> FALSE, old |-> <<>>, pipe |-> ""]

NoHv == <<>>

NoExit == <<>>

\* No handler of an episode tool is running.
NoTool == [fn |-> "none"]

\* The token file when a program starts: none, text that is not JSON, a
\* token record with or without refresh_token, or a JSON object that has
\* an expires_at and neither access_token nor refresh_token.
InitFiles ==
  {NoFile, <<Garbage>>} \cup
  {<<Stringify(<<TokenRec(0, rt, 61000)>>)>> : rt \in {0, 1}} \cup
  {<<Stringify(<<TokenRec(Undefined, 0, 61000)>>)>>}

InitAuth ==
  /\ now = 0
  /\ file \in InitFiles
  /\ proc = "none"
  /\ tokenData = Null
  /\ calls = [c \in Calls |-> IdleCall]
  /\ requests = 0
  /\ issued = 0
  /\ att = IdleAtt
  /\ hv = NoHv
  /\ exit = NoExit
  /\ ev = ""

Init == InitAuth /\ tool = NoTool

(* ------------------------- the environment ----------------------------- *)

\* hv, exit and ev hold what the step just taken reported: the result of a
\* hasValidTokens() call, the exit status of a program, the event handled
\* by the callback server or its timer.  Every other step leaves them empty.
\* No step of the token lifecycle or of the authorization flow touches the
\* locals of a tool handler.
Obs(h, x, e) == hv' = h /\ exit' = x /\ ev' = e /\ UNCHANGED tool

NoObs == Obs(NoHv, NoExit, "")

ExitRec(prog, code, reason) ==
  <<[prog |-> prog, code |-> code, reason |-> reason]>>

\* The event loop takes its next event: no continuation of authenticate()
\* is waiting to run.
Turn == att.phase # "resuming"

\* The wall clock moves on to a later instant: one of T, or the instant at
\* which the armed callback timer is due.
Tick(T) ==
  /\ Turn
  /\ \E t \in T \cup {att.due}
                 \cup {att.old[i].due : i \in 1..Len(att.old)} :
       t > now /\ now' = t
  /\ NoObs
  /\ UNCHANGED <<file, proc, tokenData, calls, requests, issued, att>>

\* What is left of an attempt when its process is gone: the listener, the
\* open connections and the timer go with the process.  The outcome of a
\* settled attempt stays on record until the next program starts.
Dead(a) ==
  IF a.phase \in {"done", "failed"}
    THEN [a EXCEPT !.bound = FALSE, !.conn = 0, !.timer = FALSE,
                   !.due = 0, !.prior = 0, !.hung = 0, !.idle = FALSE,
                   !.old = <<>>]
    ELSE IdleAtt

\* The process is gone, and its memory with it.
ProcessGone(a) ==
  /\ proc' = "none"
  /\ tokenData' = Null
  /\ calls' = [c \in Calls |-> IdleCall]
  /\ att' = Dead(a)

(* ------------------------- token lifecycle ----------------------------- *)

RefreshStart_NoGuard(op, td) == NewCall(op, "awaiting", 0, "", 1)

\* A call after the synchronous part of refreshAccessToken(): the guard on a
\* missing refresh token, then the POST to the token endpoint.
RefreshStart(op, td) ==
  IF ~HasRefreshToken(td)
    THEN NewCall(op, "threw", 0, "no_refresh_token", 0)
    ELSE NewCall(op, "awaiting", 0, "", 1)

GetAccessTokenStart_NoGuard(td, t) ==
  IF td = Null \/ NeedsRefresh(td, t)
    THEN RefreshStart("getAccessToken", td)
    ELSE NewCall("getAccessToken", "returned", td[1].access_token, "", 0)

\* A call after the synchronous part of getAccessToken().
GetAccessTokenStart(td, t) ==
  IF td = Null
    THEN NewCall("getAccessToken", "threw", 0, "not_authenticated", 0)
    ELSE IF NeedsRefresh(td, t)
      THEN RefreshStart("getAccessToken", td)
      ELSE NewCall("getAccessToken", "returned", td[1].access_token, "", 0)

StartCall_SingleFlight(c, call) ==
  LET joins == call.sent > 0 /\ \E d \in Calls : calls[d].status = "awaiting"
  IN /\ calls[c].status \notin {"awaiting", "refreshed"}
     /\ call.sent > 0 => requests < MaxRequests
     /\ calls' = [calls EXCEPT
                    ![c] = IF joins THEN [call EXCEPT !.sent = 0] ELSE call]
     /\ requests' = requests + (IF joins THEN 0 ELSE call.sent)

\* A call start takes effect; a start that sends a request needs budget.
\* A slot is free when its call has settled.
StartCall(c, call) ==
  /\ calls[c].status \notin {"awaiting", "refreshed"}
  /\ call.sent > 0 => requests < MaxRequests
  /\ calls' = [calls EXCEPT ![c] = call]
  /\ requests' = requests + call.sent

\* getAccessToken(), called by a host program or by the request interceptor
\* of the server's API client.
GetAccessToken(c) ==
  /\ proc \in {"host", "server"}
  /\ StartCall(c, GetAccessTokenStart(tokenData, now))
  /\ NoObs
  /\ UNCHANGED <<now, file, proc, tokenData, issued, att>>

\* refreshAccessToken(), called directly.
RefreshAccessToken(c) ==
  /\ proc = "host"
  /\ StartCall(c, RefreshStart("refreshAccessToken", tokenData))
  /\ NoObs
  /\ UNCHANGED <<now, file, proc, tokenData, issued, att>>

\* A token response: the endpoint issues a fresh access token each time.
TokenResponse(n, rt, ein) ==
  [access_token |-> n + 1, refresh_token |-> rt, expires_in |-> ein]

RefreshedRecord_Seconds(td, resp, t) ==
  TokenRec(resp.access_token,
           IF resp.refresh_token # 0 THEN resp.refresh_token
                                     ELSE td[1].refresh_token,
           t + resp.expires_in)

RefreshedRecord_Discard(td, resp, t) ==
  TokenRec(resp.access_token, resp.refresh_token,
           t + resp.expires_in * 1000)

\* The record a refresh response builds.
RefreshedRecord(td, resp, t) ==
  TokenRec(resp.access_token,
           IF resp.refresh_token # 0 THEN resp.refresh_token
                                     ELSE td[1].refresh_token,
           t + resp.expires_in * 1000)

\* Building the record throws (a TypeError on the null this.tokenData) when
\* the response has no refresh_token and the record was cleared meanwhile;
\* the throw is inside the try and is reported as a failed refresh.
RefreshThrows(td, resp) == resp.refresh_token = 0 /\ td = Null

\* The Error the catch block of refreshAccessToken() throws in place of
\* the caught one: its message is fixed, the caught error (and with it the
\* endpoint's error detail) only goes to console.error.
RefreshError(caught) == [err |-> "refresh_failed", detail |-> 0]

RefreshCatch_Clear(call, td, caught) ==
  [call |-> [call EXCEPT !.status = "threw",
                         !.err = RefreshError(caught).err,
                         !.detail = RefreshError(caught).detail],
   td |-> Null]

\* The catch block of refreshAccessToken(): the error is logged and
\* replaced by the refresh-failed error; the record is not touched and
\* nothing is sent again.  Gives the call and the held record afterwards.
RefreshCatch(call, td, caught) ==
  [call |-> [call EXCEPT !.status = "threw",
                         !.err = RefreshError(caught).err,
                         !.detail = RefreshError(caught).detail],
   td |-> td]

\* refreshAccessToken() of call c settles, leaving the call slot as call and
\* the held record as td.  In auth-cli refresh that is the end of the
\* process: main() prints and returns, or its catch handler calls
\* process.exit(1); the exit status is reported and the memory is gone.
CliRefreshSettled(ok, c, call, td) ==
  IF proc = "cli_refresh"
    THEN /\ Obs(NoHv, IF ok THEN ExitRec("auth-cli refresh", 0, "refreshed")
                           ELSE ExitRec("auth-cli refresh", 1, "error"), "")
         /\ ProcessGone(att)
    ELSE /\ NoObs
         /\ calls' = [calls EXCEPT ![c] = call]
         /\ tokenData' = td
         /\ UNCHANGED <<proc, att>>

\* The token endpoint answers call c's refresh request with a token response:
\* the rest of refreshAccessToken().  A direct call has returned; in a
\* getAccessToken() call the await on refreshAccessToken() is resolved and
\* the rest of getAccessToken() runs in a later job (status "refreshed").
RefreshResponse(c, rt, ein, write) ==
  /\ Turn
  /\ calls[c].status = "awaiting"
  /\ LET resp == TokenResponse(issued, rt, ein)
     IN IF RefreshThrows(tokenData, resp)
          THEN /\ UNCHANGED file
               /\ CliRefreshSettled(FALSE, c,
                                    RefreshCatch(calls[c], tokenData, 0).call,
                                    RefreshCatch(calls[c], tokenData, 0).td)
          ELSE LET td == <<RefreshedRecord(tokenData, resp, now)>>
               IN /\ file' = SaveTokens(file, td, write)
                  /\ CliRefreshSettled(TRUE, c,
                       [calls[c] EXCEPT
                          !.status = IF calls[c].op = "getAccessToken"
                                       THEN "refreshed" ELSE "returned"],
                       td)
  /\ issued' = issued + 1
  /\ UNCHANGED <<now, requests>>

\* Call c's refresh request fails: an error status, whose response may
\* carry an error detail, or a network error.
RefreshFailure(c, detail) ==
  /\ Turn
  /\ calls[c].status = "awaiting"
  /\ CliRefreshSettled(FALSE, c,
                       RefreshCatch(calls[c], tokenData, detail).call,
                       RefreshCatch(calls[c], tokenData, detail).td)
  /\ UNCHANGED <<now, file, requests, issued>>

GetAccessTokenReturn_Stale(c) ==
  /\ calls[c].status = "refreshed"
  /\ calls' = [calls EXCEPT ![c].status = "returned",
                             ![c].value = IF tokenData = Null THEN 0
                                          ELSE tokenData[1].access_token - 1]
  /\ NoObs
  /\ UNCHANGED <<now, file, proc, tokenData, requests, issued, att>>

\* getAccessToken() resumes after its await and returns the access_token of
\* the record held now; reading it throws a TypeError when the record was
\* cleared since the refresh.
GetAccessTokenReturn(c) ==
  /\ calls[c].status = "refreshed"
  /\ calls' = [calls EXCEPT
       ![c] = IF tokenData = Null
                THEN [calls[c] EXCEPT !.status = "threw", !.err = "type_error"]
                ELSE [calls[c] EXCEPT !.status = "returned",
                                      !.value = tokenData[1].access_token]]
  /\ NoObs
  /\ UNCHANGED <<now, file, proc, tokenData, requests, issued, att>>

\* hasValidTokens(), called by a host program.
HasValidTokensCall ==
  /\ proc = "host"
  /\ Obs(<<HasValidTokens(tokenData, now)>>, NoExit, "")
  /\ UNCHANGED <<now, file, proc, tokenData, calls, requests, issued, att>>

Unlinked_Keep(f, unlinkOk) == f

\* The file after clearTokens(): unlinked if it exists; an unlink error is
\* caught and logged.
Unlinked(f, unlinkOk) == IF f # NoFile /\ unlinkOk THEN NoFile ELSE f

\* clearTokens(), called by a host program.
ClearTokens(unlinkOk) ==
  /\ proc = "host"
  /\ tokenData' = Null
  /\ file' = Unlinked(file, unlinkOk)
  /\ NoObs
  /\ UNCHANGED <<now, proc, calls, requests, issued, att>>

(* ------------------------- authorization flow -------------------------- *)

\* authenticate() up to its await: a fresh state value, the listener bound
\* to 127.0.0.1:8888 and the 5-minute timer armed (waitForCallback).
NewAttempt(s, t) ==
  [IdleAtt EXCEPT !.phase = "awaiting", !.expected = s, !.bound = TRUE,
                  !.timer = TRUE, !.due = t + CALLBACK_TIMEOUT]

CallbackVerdict_NoStateCheck(error, state, code, expectedState) ==
  IF Truthy(error) THEN "denied"
  ELSE IF ~Truthy(code) THEN "no_code"
  ELSE "ok"

CallbackVerdict_StateFirst(error, state, code, expectedState) ==
  IF state # expectedState THEN "state_mismatch"
  ELSE IF Truthy(error) THEN "denied"
  ELSE IF ~Truthy(code) THEN "no_code"
  ELSE "ok"

\* The branch the request handler takes for a /callback request.
CallbackVerdict(error, state, code, expectedState) ==
  IF Truthy(error) THEN "denied"
  ELSE IF state # expectedState THEN "state_mismatch"
  ELSE IF ~Truthy(code) THEN "no_code"
  ELSE "ok"

\* resolve(code) / reject(err) of the waitForCallback promise: a promise
\* settles once, later calls have no effect.  Settling schedules the
\* continuation of authenticate(); a rejection carries its error.
SettleWait(a, v) ==
  IF a.wfc # "pending" THEN [a EXCEPT !.late = TRUE]
  ELSE IF v = "ok"
    THEN [a EXCEPT !.wfc = "resolved", !.phase = "resuming"]
    ELSE [a EXCEPT !.wfc = "rejected", !.phase = "resuming", !.outcome = v]

\* authenticate() after its await: with the code it posts the code to the
\* token endpoint (exchangeCodeForTokens), with a rejection it fails with
\* the error of the rejection.
Resumed(a) ==
  IF a.phase # "resuming" THEN a
  ELSE IF a.wfc = "resolved"
    THEN [a EXCEPT !.phase = "exchanging", !.exchanges = a.exchanges + 1,
                   !.pipe = ""]
    ELSE [a EXCEPT !.phase = "failed", !.pipe = ""]

\* While authenticate() is about to resume, the attempt records the kind of
\* the connection whose request was just handled.
Carried(a, kind) ==
  [a EXCEPT !.pipe = IF a.phase = "resuming" THEN kind ELSE ""]

\* How a request reaches a listener: on a new connection, on the open
\* connection that has sent nothing yet, on a connection with an unanswered
\* request, or on the connection whose last request was answered.
Vias == {"new", "conn", "hung", "idle"}

\* The number of connections open to a listener.
Open(l) == l.conn + l.hung + (IF l.idle THEN 1 ELSE 0)

\* The connections of a listener (fields conn, hung, idle) when a request
\* has arrived by via and has not been answered.
Unanswered(l, via) ==
  [l EXCEPT !.conn = l.conn - (IF via = "conn" THEN 1 ELSE 0),
            !.idle = (l.idle /\ via # "idle"),
            !.hung = l.hung + (IF via = "hung" THEN 0 ELSE 1)]

\* The connections of a listener when the handler has answered a request
\* that arrived by via and called server.close(): close() destroys the
\* connection that was idle; the one being answered is idle afterwards,
\* unless an earlier request on it is still unanswered.
Answered(l, via) ==
  [l EXCEPT !.conn = l.conn - (IF via = "conn" THEN 1 ELSE 0),
            !.idle = (via # "hung")]

\* The request handler of the callback server, after the URL parse: only
\* /callback is served; every branch writes its page, closes the server and
\* settles the promise.  A request for another path gets no answer.
HandleCallback(a, via, path, error, state, code) ==
  IF path # "/callback" THEN Carried(Unanswered(a, via), "hung")
  ELSE LET v == CallbackVerdict(error, state, code, a.expected)
           read == [error |-> Truthy(error), stateOk |-> state = a.expected,
                    code |-> Truthy(code)]
       IN Carried(SettleWait([Answered(a, via) EXCEPT
                                 !.cb = <<read>>, !.page = v,
                                 !.bound = FALSE], v),
                  IF via = "hung" THEN "hung" ELSE "idle")

\* The timer callback: server.close(), which also destroys the connection
\* that is idle, and reject.
HandleTimeout(a) ==
  SettleWait([a EXCEPT !.timer = FALSE, !.due = 0, !.bound = FALSE,
                       !.idle = FALSE], "timeout")

\* Nothing keeps the process of auth-cli login alive once authenticate()
\* has returned: the timer, which nothing clears, has fired, and no
\* connection is open to the closed listener.
Drained(a) ==
  a.phase = "done" /\ ~a.bound /\ ~a.timer /\ Open(a) = 0

\* The attempt is a2 and the held record td after a step that reported e;
\* auth-cli login, whose main() has returned, ends with status 0 in the
\* step that leaves nothing to wait for.
LoginStep(a2, td, e) ==
  IF proc = "cli_login" /\ Drained(a2)
    THEN /\ Obs(NoHv, ExitRec("auth-cli login", 0, "done"), e)
         /\ ProcessGone(a2)
    ELSE /\ att' = a2
         /\ tokenData' = td
         /\ Obs(NoHv, NoExit, e)
         /\ UNCHANGED <<proc, calls>>

\* The attempt moves to a2.  In auth-cli a failed authenticate() rejects
\* main(), whose catch handler calls process.exit(1).
AttemptStep(a2, e) ==
  /\ a2.exchanges > att.exchanges => requests < MaxRequests
  /\ requests' = requests + (a2.exchanges - att.exchanges)
  /\ IF proc = "cli_login" /\ a2.phase = "failed" /\ att.phase # "failed"
       THEN /\ Obs(NoHv, ExitRec("auth-cli login", 1, a2.outcome), e)
            /\ ProcessGone(a2)
       ELSE LoginStep(a2, tokenData, e)

\* A listener with its timer and connections.
Listener(due, conn, hung, idle) ==
  [due |-> due, conn |-> conn, hung |-> hung, idle |-> idle]

\* A listener is kept on record while it has connections.
Kept(l) == IF Open(l) > 0 THEN <<l>> ELSE <<>>

\* What a new authenticate() call leaves of the attempt before it: its
\* closed listener, whose connections stay open and whose handler and timer
\* still run.
OldListener(a) ==
  Kept(Listener(IF a.timer THEN a.due ELSE 0, a.conn, a.hung, a.idle))

\* authenticate(), called by a host program whose port 8888 is free: no
\* attempt is awaiting its callback.  Nothing guards against an earlier call
\* whose code exchange is still pending: that call goes on beside the new
\* attempt.
Authenticate(s) ==
  /\ proc = "host"
  /\ att.phase \notin {"awaiting", "resuming"}
  /\ now <= MaxStart
  /\ Len(att.old) + Len(OldListener(att)) <= MaxOld
  /\ att' = [NewAttempt(s, now) EXCEPT
               !.prior = att.prior + (IF att.phase = "exchanging" THEN 1
                                                                   ELSE 0),
               !.old = att.old \o OldListener(att)]
  /\ NoObs
  /\ UNCHANGED <<now, file, proc, tokenData, calls, requests, issued>>

\* authenticate(), called again while the attempt in flight still has its
\* listener bound: server.listen() of the second waitForCallback() fails
\* (the port is in use), the server emits 'error', for which nothing
\* listens, and the uncaught exception ends the process.
AuthenticateAgain ==
  /\ proc = "host"
  /\ att.phase = "awaiting"
  /\ att.bound
  /\ Obs(NoHv, ExitRec("host", 1, "listen_error"), "")
  /\ ProcessGone(att)
  /\ UNCHANGED <<now, file, requests, issued>>

\* new URL(req.url || '', `http://${req.headers.host}`), the first
\* statement of the request handler, throws for a request whose target or
\* Host header does not parse.
UrlParses(path) == path # "invalid"

\* A client opens a connection to the bound listener and sends nothing yet.
ConnOpen ==
  /\ proc \in {"host", "cli_login"}
  /\ att.bound
  /\ Open(att) < MaxConns
  /\ att' = [att EXCEPT !.conn = att.conn + 1]
  /\ NoObs
  /\ UNCHANGED <<now, file, proc, tokenData, calls, requests, issued>>

\* The request can arrive by via at the listener l.
Arrives(l, via) ==
  \/ via = "conn" /\ l.conn > 0
  \/ via = "hung" /\ l.hung > 0
  \/ via = "idle" /\ l.idle

\* The listener l when the client has closed one connection of the kind
\* via (for an idle one, the keep-alive timeout of the server does the
\* same).
Closed(l, via) ==
  IF via = "idle" THEN [l EXCEPT !.idle = FALSE]
                  ELSE [l EXCEPT ![via] = l[via] - 1]

\* The process ends with the uncaught TypeError of a URL that does not
\* parse.
InvalidUrlExit ==
  /\ Obs(NoHv, ExitRec(IF proc = "host" THEN "host" ELSE "auth-cli login",
                       1, "invalid_url"), "request")
  /\ ProcessGone(att)
  /\ UNCHANGED requests

\* A request reaches the callback server and its handler runs: on a new
\* connection while the listener is bound (as long as no more than MaxConns
\* connections are open afterwards), or on a connection that is open.
\* While authenticate() is about to resume, the only request handled is one
\* that came in with the request just handled, on the same connection.  A
\* handler that resolves the promise needs budget for the code exchange
\* that follows.  The TypeError of a URL that does not parse is caught
\* nowhere: the uncaught exception ends the process.
CallbackRequest(via, path, error, state, code) ==
  /\ proc \in {"host", "cli_login"}
  /\ (via = "new" /\ att.bound) \/ Arrives(att, via)
  /\ att.phase = "resuming" => via = att.pipe
  /\ IF UrlParses(path)
       THEN LET a2 == HandleCallback(att, via, path, error, state, code)
            IN /\ Open(a2) <= MaxConns
               /\ a2.wfc = "resolved" /\ att.wfc = "pending" =>
                    requests < MaxRequests
               /\ AttemptStep(a2, "request")
       ELSE InvalidUrlExit
  /\ UNCHANGED <<now, file, issued>>

\* authenticate() resumes after `await this.waitForCallback(state)`: a later
\* microtask than the handler that settled the promise.
AuthenticateResumes ==
  /\ proc \in {"host", "cli_login"}
  /\ att.phase = "resuming"
  /\ AttemptStep(Resumed(att), "")
  /\ UNCHANGED <<now, file, issued>>

\* The i-th listener of an earlier authenticate() call moves to o2.
OldStep(i, o2, e) ==
  /\ att' = [att EXCEPT !.old = SubSeq(att.old, 1, i - 1) \o Kept(o2)
                                  \o SubSeq(att.old, i + 1, Len(att.old))]
  /\ Obs(NoHv, NoExit, e)
  /\ UNCHANGED <<now, file, proc, tokenData, calls, requests, issued>>

\* A request arrives on a connection that is still open to the i-th
\* listener of an earlier authenticate() call: the same handler runs; its
\* promise is settled, so that a /callback request is answered and changes
\* nothing else.
OldRequest(i, via, path) ==
  /\ Turn
  /\ proc = "host"
  /\ i \in 1..Len(att.old)
  /\ Arrives(att.old[i], via)
  /\ IF ~UrlParses(path)
       THEN InvalidUrlExit /\ UNCHANGED <<now, file, issued>>
       ELSE OldStep(i, IF path = "/callback" THEN Answered(att.old[i], via)
                                            ELSE Unanswered(att.old[i], via),
                    "old_request")

\* The timer of the i-th listener of an earlier authenticate() call fires:
\* server.close() on its closed listener destroys the connection that is
\* idle; the reject has no effect.
OldTimerFire(i) ==
  /\ Turn
  /\ proc = "host"
  /\ i \in 1..Len(att.old)
  /\ att.old[i].due > 0
  /\ now >= att.old[i].due
  /\ OldStep(i, [att.old[i] EXCEPT !.due = 0, !.idle = FALSE], "old_timer")

\* The client closes a connection to the i-th listener of an earlier call.
OldConnClose(i, via) ==
  /\ Turn
  /\ i \in 1..Len(att.old)
  /\ Arrives(att.old[i], via)
  /\ OldStep(i, Closed(att.old[i], via), "")

\* The 5-minute timer fires; nothing ever clears it.  When its callback
\* rejects the promise, authenticate() resumes and fails before the event
\* loop takes anything else.
TimerFire ==
  /\ Turn
  /\ proc \in {"host", "cli_login"}
  /\ att.timer
  /\ now >= att.due
  /\ AttemptStep(Resumed(HandleTimeout(att)), "timer")
  /\ UNCHANGED <<now, file, issued>>

\* The client closes a connection to the listener.
ConnClose(via) ==
  /\ Turn
  /\ Arrives(att, via)
  /\ AttemptStep(Closed(att, via), "")
  /\ UNCHANGED <<now, file, issued>>

\* The token endpoint answers the code exchange with a token response
\* (exchangeCodeForTokens), and authenticate() returns.
ExchangeResponse(rt, ein, write) ==
  /\ att.phase = "exchanging"
  /\ LET resp == TokenResponse(issued, rt, ein)
         td == <<TokenRec(resp.access_token, resp.refresh_token,
                          now + resp.expires_in * 1000)>>
     IN /\ file' = SaveTokens(file, td, write)
        /\ LoginStep([att EXCEPT !.phase = "done", !.outcome = "success"],
                     td, "")
  /\ issued' = issued + 1
  /\ UNCHANGED <<now, requests>>

\* The Error the catch block of exchangeCodeForTokens() throws: its
\* message is fixed, the response data only goes to console.error.
ExchangeError(caught) == [err |-> "exchange_failed", detail |-> 0]

ExchangeFailure_Clear(detail) ==
  /\ att.phase = "exchanging"
  /\ att' = [att EXCEPT !.phase = "failed", !.outcome = "exchange_failed"]
  /\ tokenData' = Null
  /\ NoObs
  /\ UNCHANGED <<now, file, proc, calls, requests, issued>>

\* The code exchange fails: an error status, whose response may carry an
\* error detail, or a network error; authenticate() fails with the Error of
\* exchangeCodeForTokens().
ExchangeFailure(detail) ==
  /\ att.phase = "exchanging"
  /\ AttemptStep([att EXCEPT !.phase = "failed",
                             !.outcome = ExchangeError(detail).err,
                             !.detail = ExchangeError(detail).detail], "")
  /\ UNCHANGED <<now, file, issued>>

\* The token endpoint answers the pending code exchange of an earlier
\* authenticate() call, which builds and saves its record and returns.
PriorExchangeResponse(rt, ein, write) ==
  /\ Turn
  /\ att.prior > 0
  /\ LET resp == TokenResponse(issued, rt, ein)
     IN tokenData' = <<TokenRec(resp.access_token, resp.refresh_token,
                                now + resp.expires_in * 1000)>>
  /\ file' = SaveTokens(file, tokenData', write)
  /\ issued' = issued + 1
  /\ att' = [att EXCEPT !.prior = att.prior - 1]
  /\ Obs(NoHv, NoExit, "prior_done")
  /\ UNCHANGED <<now, proc, calls, requests>>

\* The pending code exchange of an earlier authenticate() call fails, and
\* that call fails with the Error of exchangeCodeForTokens().
PriorExchangeFailure(detail) ==
  /\ Turn
  /\ att.prior > 0
  /\ att' = [att EXCEPT !.prior = att.prior - 1]
  /\ Obs(NoHv, NoExit, "prior_failed")
  /\ UNCHANGED <<now, file, proc, tokenData, calls, requests, issued>>

(* ------------------------------ programs ------------------------------- *)

\* A host program constructs a SpotifyAuth; the constructor loads the file.
StartHost ==
  /\ proc = "none"
  /\ proc' = "host"
  /\ tokenData' = LoadTokens(file)
  /\ att' = IdleAtt
  /\ NoObs
  /\ UNCHANGED <<now, file, calls, requests, issued>>

\* index.ts with client id and secret set: constructs a SpotifyAuth and
\* exits with status 1 unless hasValidTokens().
StartServer ==
  /\ proc = "none"
  /\ LET td == LoadTokens(file)
     IN IF ~HasValidTokens(td, now)
          THEN /\ Obs(NoHv, ExitRec("server", 1, "need_auth"), "")
               /\ UNCHANGED <<proc, tokenData>>
          ELSE /\ proc' = "server"
               /\ tokenData' = td
               /\ NoObs
  /\ att' = IdleAtt
  /\ UNCHANGED <<now, file, calls, requests, issued>>

\* auth-cli login
AuthCliLogin(s) ==
  /\ proc = "none"
  /\ now <= MaxStart
  /\ proc' = "cli_login"
  /\ tokenData' = LoadTokens(file)
  /\ att' = NewAttempt(s, now)
  /\ NoObs
  /\ UNCHANGED <<now, file, calls, requests, issued>>

\* auth-cli logout: a short-lived process of its own, which may run while
\* another program holds a SpotifyAuth on the same token file.
AuthCliLogout(unlinkOk) ==
  /\ file' = Unlinked(file, unlinkOk)
  /\ Obs(NoHv, ExitRec("auth-cli logout", 0, "cleared"), "")
  /\ att' = IF proc = "none" THEN IdleAtt ELSE att
  /\ UNCHANGED <<now, proc, tokenData, calls, requests, issued>>

\* auth-cli status
AuthCliStatus ==
  /\ proc = "none"
  /\ Obs(NoHv, ExitRec("auth-cli status", 0,
                        IF HasValidTokens(LoadTokens(file), now)
                          THEN "authenticated" ELSE "not_authenticated"), "")
  /\ att' = IdleAtt
  /\ UNCHANGED <<now, file, proc, tokenData, calls, requests, issued>>

\* auth-cli refresh: exits with status 1 unless hasValidTokens(), then
\* calls refreshAccessToken().
AuthCliRefresh ==
  /\ proc = "none"
  /\ LET td == LoadTokens(file)
         call == RefreshStart("refreshAccessToken", td)
     IN IF ~HasValidTokens(td, now)
          THEN /\ Obs(NoHv, ExitRec("auth-cli refresh", 1, "no_tokens"), "")
               /\ UNCHANGED <<proc, tokenData, calls, requests>>
          ELSE IF call.status = "threw"
            THEN /\ Obs(NoHv, ExitRec("auth-cli refresh", 1, "error"), "")
                 /\ UNCHANGED <<proc, tokenData, calls, requests>>
            ELSE /\ requests < MaxRequests
                 /\ proc' = "cli_refresh"
                 /\ tokenData' = td
                 /\ calls' = [calls EXCEPT ![1] = call]
                 /\ requests' = requests + 1
                 /\ NoObs
  /\ att' = IdleAtt
  /\ UNCHANGED <<now, file, issued>>

\* The process ends: it is killed, or a host program has run to its end.
Exit ==
  /\ proc # "none"
  /\ ProcessGone(att)
  /\ NoObs
  /\ UNCHANGED <<now, file, requests, issued>>

\* The token lifecycle: the programs that use a stored record.
NextToken ==
  \/ Tick(Instants)
  \/ \E c \in Calls : GetAccessToken(c)
  \/ \E c \in Calls : RefreshAccessToken(c)
  \/ \E c \in Calls, rt \in RespRefreshTokens, ein \in ExpiresInSet,
        write \in WriteOutcomes : RefreshResponse(c, rt, ein, write)
  \/ \E c \in Calls, detail \in Details : RefreshFailure(c, detail)
  \/ \E c \in Calls : GetAccessTokenReturn(c)
  \/ HasValidTokensCall
  \/ \E unlinkOk \in BOOLEAN : ClearTokens(unlinkOk)
  \/ StartHost
  \/ StartServer
  \/ \E unlinkOk \in BOOLEAN : AuthCliLogout(unlinkOk)
  \/ AuthCliStatus
  \/ AuthCliRefresh
  \/ Exit

SpecToken == Init /\ [][NextToken]_vars

\* The authorization flow is run with no token file or a stored record at
\* the start, and with code exchanges whose record is written in full: what
\* the file holds and how a write ends is the subject of the session runs.
FlowFiles == {NoFile, <<Stringify(<<TokenRec(0, 1, 61000)>>)>>}

FlowExpiresIn == {61}

FlowWrites == {"written"}

\* Requests sent on a connection that is already open: a callback that
\* starts the code exchange of an attempt expecting state 2, a callback that
\* fails the attempt, another path, and a request that does not parse.
ListenerRequests ==
  {<<"/callback", 0, 2, 2>>, <<"/callback", 2, 0, 0>>,
   <<"/other", 0, 0, 0>>, <<"invalid", 0, 0, 0>>}

\* The authorization flow: the programs that log in.  Every request is
\* tried on a new connection.  Here a host calls
\* authenticate() again when no connection is left open to the listener of
\* the call before; the listener runs below lift that.
NextAuth ==
  \/ Tick(AuthInstants)
  \/ \E s \in StateValues : OldListener(att) = <<>> /\ Authenticate(s)
  \/ AuthenticateAgain
  \/ \E r \in Requests : CallbackRequest("new", r[1], r[2], r[3], r[4])
  \/ \E via \in Vias \ {"new"}, r \in ListenerRequests :
        CallbackRequest(via, r[1], r[2], r[3], r[4])
  \/ AuthenticateResumes
  \/ TimerFire
  \/ ConnOpen
  \/ \E via \in Vias : ConnClose(via)
  \/ \E rt \in ExchangeRefreshTokens, ein \in FlowExpiresIn,
        write \in FlowWrites : ExchangeResponse(rt, ein, write)
  \/ \E detail \in Details : ExchangeFailure(detail)
  \/ \E rt \in ExchangeRefreshTokens, ein \in FlowExpiresIn,
        write \in FlowWrites : PriorExchangeResponse(rt, ein, write)
  \/ \E detail \in Details : PriorExchangeFailure(detail)
  \/ StartHost
  \/ \E s \in StateValues : AuthCliLogin(s)
  \/ Exit

InitFlow == Init /\ file \in FlowFiles

SpecAuth == InitFlow /\ [][NextAuth]_vars

\* The listeners of a host program that calls authenticate() time and
\* again, whatever connections are open to the listeners of earlier calls.
NextListeners ==
  \/ Tick(AuthInstants)
  \/ StartHost
  \/ \E s \in StateValues : Authenticate(s)
  \/ \E via \in Vias, r \in ListenerRequests :
        CallbackRequest(via, r[1], r[2], r[3], r[4])
  \/ AuthenticateResumes
  \/ TimerFire
  \/ ConnOpen
  \/ \E via \in Vias : ConnClose(via)
  \/ \E i \in 1..MaxOld, via \in Vias, path \in Paths :
        OldRequest(i, via, path)
  \/ \E i \in 1..MaxOld : OldTimerFire(i)
  \/ \E i \in 1..MaxOld, via \in Vias : OldConnClose(i, via)
  \/ \E detail \in Details : ExchangeFailure(detail)

\* A host program started without a token file.
InitListeners == Init /\ file = NoFile

SpecListeners == InitListeners /\ [][NextListeners]_vars

\* The authorization flow with its scheduling: the clock advances, the
\* event loop runs a timer that is due and a continuation that is ready.
\* Nothing bounds the POST of the code
\* exchange (axios.post without a timeout): it may stay without an answer.
SpecAuthLive ==
  /\ SpecAuth
  /\ WF_vars(Tick(AuthInstants))
  /\ WF_vars(TimerFire)
  /\ WF_vars(AuthenticateResumes)

\* A fresh install: no token file yet.
InitFresh == Init /\ file = NoFile

\* The state values of the logins of a session.
SessionStates == {2}

\* The requests the callback server gets in a session: the callback with
\* the code (its state the expected one or not), the callback of a denied
\* authorization, a request for another path, and one that does not parse.
SessionRequests ==
  {<<"/callback", 0, 2, 2>>, <<"/callback", 0, 3, 2>>, <<"/callback", 2, 0, 0>>,
   <<"/other", 0, 0, 0>>, <<"invalid", 0, 0, 0>>}

\* A session of a program that logs in and then uses the token, one
\* getAccessToken() call at a time; it calls authenticate() again when no
\* connection is left open to the listener of the call before.
NextSession ==
  \/ Tick(AuthInstants)
  \/ \E s \in SessionStates : OldListener(att) = <<>> /\ Authenticate(s)
  \/ AuthenticateAgain
  \/ \E r \in SessionRequests : CallbackRequest("new", r[1], r[2], r[3], r[4])
  \/ AuthenticateResumes
  \/ TimerFire
  \/ \E via \in Vias : ConnClose(via)
  \/ \E rt \in ExchangeRefreshTokens, ein \in ExpiresInSet,
        write \in WriteOutcomes : ExchangeResponse(rt, ein, write)
  \/ \E detail \in Details : ExchangeFailure(detail)
  \/ \E rt \in ExchangeRefreshTokens, ein \in ExpiresInSet,
        write \in WriteOutcomes : PriorExchangeResponse(rt, ein, write)
  \/ \E detail \in Details : PriorExchangeFailure(detail)
  \/ StartHost
  \/ \E s \in SessionStates : AuthCliLogin(s)
  \/ Exit
  \/ GetAccessToken(1)
  \/ \E rt \in RespRefreshTokens, ein \in ExpiresInSet,
        write \in WriteOutcomes : RefreshResponse(1, rt, ein, write)
  \/ \E detail \in Details : RefreshFailure(1, detail)
  \/ GetAccessTokenReturn(1)

SpecSession == InitFresh /\ [][NextSession]_vars

(* ======================= claims: token lifecycle ======================= *)

\* The stored record is one whose access token is still good for more than
\* the 60-second buffer at the clock value of the call.
FreshAt(td, t) == td[1].expires_at > t + 60000

\* C1 as stated: a getAccessToken() call with a held record returns the
\* stored access_token without any token-endpoint request when
\* expires_at > now + 60000, and otherwise sends exactly one refresh request,
\* whatever the record is; and a call whose refresh has succeeded returns a
\* token.
C1_AsStated ==
  /\ [][\A c \in Calls :
          GetAccessToken(c) /\ tokenData # Null =>
            IF FreshAt(tokenData, now)
              THEN /\ calls'[c].status = "returned"
                   /\ calls'[c].value = tokenData[1].access_token
                   /\ requests' = requests
              ELSE /\ calls'[c].sent = 1
                   /\ requests' = requests + 1]_vars
  /\ [][\A c \in Calls :
          GetAccessTokenReturn(c) => calls'[c].status = "returned"]_vars

\* C1 (amended): a getAccessToken() call with a held record returns the
\* stored access_token without any token-endpoint request when
\* expires_at > now + 60000; when expires_at <= now + 60000 and the record has
\* a refresh_token it sends exactly one refresh request, and when the record
\* has none it fails with the no-refresh-token error and sends nothing.  The
\* call sends no further request while it waits.  When the refresh succeeds
\* the held record gets the access_token of the refresh response, which no
\* record held before had, and the call, when it resumes, returns the
\* access_token of the record held then: a token issued by a refresh
\* response (its own, or that of another call answered in between), not the
\* one stored before the call; when the record was cleared in between, the
\* call fails with a TypeError.
C1_GetAccessToken ==
  [][\A c \in Calls :
       /\ GetAccessToken(c) /\ tokenData # Null =>
            IF FreshAt(tokenData, now)
              THEN /\ calls'[c].status = "returned"
                   /\ calls'[c].value = tokenData[1].access_token
                   /\ calls'[c].sent = 0
                   /\ requests' = requests
              ELSE IF tokenData[1].refresh_token # 0
                THEN /\ calls'[c].status = "awaiting"
                     /\ calls'[c].sent = 1
                     /\ requests' = requests + 1
                ELSE /\ calls'[c].status = "threw"
                     /\ calls'[c].err = "no_refresh_token"
                     /\ requests' = requests
       /\ calls[c].op = "getAccessToken" /\ calls[c].status = "awaiting"
          /\ calls'[c] # calls[c] /\ calls'[c].op = "getAccessToken" =>
            /\ calls'[c].sent = 1
            /\ requests' = requests
            /\ calls'[c].status \in {"refreshed", "threw"}
            /\ calls'[c].status = "threw" =>
                 calls'[c].err = "refresh_failed"
       /\ \A rt \in RespRefreshTokens, ein \in ExpiresInSet,
             write \in WriteOutcomes :
            (RefreshResponse(c, rt, ein, write)
              /\ calls[c].op = "getAccessToken"
              /\ calls'[c].status = "refreshed") =>
              /\ tokenData'[1].access_token =
                   TokenResponse(issued, rt, ein).access_token
              /\ tokenData # Null =>
                   /\ tokenData[1].access_token <= issued
                   /\ tokenData'[1].access_token > tokenData[1].access_token
       /\ calls[c].op = "getAccessToken" /\ calls[c].status = "refreshed"
          /\ calls'[c] # calls[c] /\ calls'[c].op = "getAccessToken" =>
            /\ calls'[c].sent = 1
            /\ requests' = requests
            /\ tokenData' = tokenData
            /\ IF tokenData = Null
                 THEN /\ calls'[c].status = "threw"
                      /\ calls'[c].err = "type_error"
                 ELSE /\ calls'[c].status = "returned"
                      /\ calls'[c].value = tokenData[1].access_token
                      /\ calls'[c].value \in 1..issued
       /\ (proc' = proc /\ tokenData' # Null /\ tokenData' # tokenData) =>
            tokenData'[1].access_token = issued + 1]_vars

\* C1 witness: a getAccessToken() call has sent one refresh request and
\* returned the access token of the response, now the held one.
C1_Witness ==
  \E c \in Calls :
    /\ calls[c].op = "getAccessToken"
    /\ calls[c].status = "returned"
    /\ calls[c].sent = 1
    /\ tokenData # Null
    /\ calls[c].value = tokenData[1].access_token
    /\ calls[c].value > 0

\* C2: hasValidTokens() returns true exactly when a record is held and its
\* expires_at > now + 60000; false at expires_at = now + 60000, below it,
\* and when no record is held.
C2_HasValidTokens ==
  hv # NoHv =>
    /\ tokenData = Null => hv[1] = FALSE
    /\ tokenData # Null /\ tokenData[1].expires_at = now + 60000 => hv[1] = FALSE
    /\ tokenData # Null /\ tokenData[1].expires_at < now + 60000 => hv[1] = FALSE
    /\ tokenData # Null /\ tokenData[1].expires_at > now + 60000 => hv[1] = TRUE

\* C2 witness: hasValidTokens() has answered false for a record that
\* expires exactly at now + 60000.
C2_Witness ==
  /\ hv = <<FALSE>>
  /\ tokenData # Null
  /\ tokenData[1].expires_at = now + 60000

\* C3: a successful refresh leaves a held record whose refresh_token is the
\* one of the response when the response has one and otherwise the one held
\* when the response arrived, never none; the file written by that refresh
\* holds the same record (a failed write leaves the old file or a truncated
\* one, never a record without refresh_token).
C3_RefreshKeepsRefreshToken ==
  [][\A c \in Calls, rt \in RespRefreshTokens, ein \in ExpiresInSet,
        write \in WriteOutcomes :
       (RefreshResponse(c, rt, ein, write)
         /\ calls'[c].status \in {"returned", "refreshed"}) =>
         /\ tokenData' # Null
         /\ tokenData'[1].refresh_token =
              (IF rt # 0 THEN rt ELSE tokenData[1].refresh_token)
         /\ tokenData'[1].refresh_token # 0
         /\ write = "written" => /\ file' # NoFile
                                 /\ file'[1].kind = "json"
                                 /\ file'[1].value = tokenData'
         /\ write = "refused" => file' = file
         /\ write = "truncated" => file' = <<Garbage>>]_vars

\* C3 witness: a record built by a refresh whose response had no
\* refresh_token is held and persisted, with the refresh_token of before.
C3_Witness ==
  /\ tokenData # Null
  /\ tokenData[1].access_token > 0
  /\ tokenData[1].refresh_token = 1
  /\ file = <<Stringify(tokenData)>>

\* C6: when a refresh request fails, the call that sent it (a
\* refreshAccessToken() or the getAccessToken() that triggered it) fails with
\* the refresh-failed error and returns no token, no further request is
\* sent, and the held record and the token file stay as they were.  (In
\* auth-cli refresh the failure ends the process, with exit status 1.)
C6_RefreshFailure ==
  [][\A c \in Calls, detail \in Details :
       RefreshFailure(c, detail) =>
         /\ calls[c].sent = 1
         /\ requests' = requests
         /\ file' = file
         /\ IF proc = "cli_refresh"
              THEN exit' = ExitRec("auth-cli refresh", 1, "error")
              ELSE /\ calls'[c].status = "threw"
                   /\ calls'[c].err = "refresh_failed"
                   /\ calls'[c].value = 0
                   /\ calls'[c].sent = 1
                   /\ tokenData' = tokenData]_vars

\* C6 witness: a getAccessToken() call has failed with refresh-failed after
\* its one request, and the stale record is still held and on file.
C6_Witness ==
  \E c \in Calls :
    /\ calls[c].op = "getAccessToken"
    /\ calls[c].status = "threw"
    /\ calls[c].err = "refresh_failed"
    /\ calls[c].sent = 1
    /\ tokenData # Null
    /\ tokenData[1].access_token = 0
    /\ file = <<Stringify(tokenData)>>

\* The token file holds a record with a refresh token whose access token
\* has expired.
StoredExpiredWithRefreshToken ==
  /\ file # NoFile
  /\ file[1].kind = "json"
  /\ file[1].value # Null
  /\ file[1].value[1].refresh_token # 0
  /\ file[1].value[1].expires_at <= now

\* C7 as stated: the server started on a stored record that has a refresh
\* token never demands re-authentication, also when the access token has
\* expired.
C7_ServerStartsOnExpiredToken ==
  ~(exit = ExitRec("server", 1, "need_auth") /\ StoredExpiredWithRefreshToken)

\* C8 as stated: auth-cli refresh run on a stored record that has a refresh
\* token and an expired access token does not give up without sending a
\* refresh request.
C8_CliRefreshOnExpiredToken ==
  ~(exit = ExitRec("auth-cli refresh", 1, "no_tokens")
    /\ StoredExpiredWithRefreshToken)

(* ====================== claims: authorization flow ===================== *)

\* The step is a /callback request that settles the wait for the callback;
\* att'.cb is what its handler read.
SettlingCallback ==
  /\ att.wfc = "pending"
  /\ ev' = "request"
  /\ att'.cb # <<>>

\* C4 as stated: a settling callback whose state differs from the expected
\* one makes authenticate() fail with the state-mismatch error, and no
\* request goes to the token endpoint.
C4_AsStated ==
  /\ [][SettlingCallback /\ ~att'.cb[1].stateOk =>
          /\ att'.wfc = "rejected"
          /\ att'.outcome = "state_mismatch"
          /\ att'.exchanges = 0
          /\ requests' = requests]_vars
  /\ [][AuthenticateResumes /\ att.wfc = "rejected" =>
          /\ att'.phase = "failed"
          /\ att'.outcome = att.outcome
          /\ att'.exchanges = att.exchanges
          /\ requests' = requests]_vars

\* C4 (amended): a settling callback whose state differs from the expected
\* one (a missing state included) makes authenticate() fail, with the
\* state-mismatch error unless the callback also carries an error parameter,
\* which gives the authorization-denied error; whatever code the callback
\* carries, no request is sent to the token endpoint for that attempt, then
\* or later.  The handler rejects the wait with that error, and
\* authenticate() fails with it as soon as it resumes.
C4_StateMismatch ==
  /\ [][SettlingCallback /\ ~att'.cb[1].stateOk =>
          /\ att'.wfc = "rejected"
          /\ att'.outcome = (IF att'.cb[1].error THEN "denied"
                                                 ELSE "state_mismatch")
          /\ att'.exchanges = 0
          /\ requests' = requests]_vars
  /\ [][AuthenticateResumes /\ att.wfc = "rejected" =>
          /\ att'.phase = "failed"
          /\ att'.outcome = att.outcome
          /\ att'.exchanges = att.exchanges
          /\ requests' = requests]_vars
  /\ [][att.wfc = "rejected" /\ att.exchanges = 0 /\ att'.wfc = "rejected" =>
          att'.exchanges = 0 /\ requests' = requests]_vars

\* C4 witness: authenticate() has failed with the state-mismatch error of a
\* callback that carried a code and a wrong state, without any exchange.
C4_Witness ==
  /\ att.wfc = "rejected"
  /\ att.phase = "failed"
  /\ att.outcome = "state_mismatch"
  /\ ~att.late
  /\ att.cb = <<[error |-> FALSE, stateOk |-> FALSE, code |-> TRUE]>>
  /\ att.exchanges = 0
  /\ requests = 0

\* C5 as stated: in every state where an authenticate() call has settled,
\* in success or in any failure (the call of the latest attempt, or an
\* earlier call whose code exchange has just ended), no callback listener
\* is bound to 127.0.0.1:8888.
C5_ListenerReleased ==
  (\/ att.wfc # "pending"
   \/ att.phase \in {"done", "failed"}
   \/ ev \in {"prior_done", "prior_failed"}) => ~att.bound

\* C9: the handler decides in a fixed order.  A callback with a (non-empty)
\* error parameter gets the denied page and fails the attempt with
\* authorization-denied whatever its state and code; otherwise one whose
\* state is not the expected one gets state-mismatch whatever its code;
\* otherwise one without a (non-empty) code gets no-code; only a callback
\* with no error, the expected state and a code gets the success page and
\* starts the code exchange.  The handler settles the wait with its
\* verdict; authenticate(), as soon as it resumes, fails with the error of
\* a rejection and sends the code exchange for a code, and does nothing
\* else.
C9_HandlerOrder ==
  /\ [][ev' = "request" /\ att'.cb # <<>> =>
          LET read == att'.cb[1]
              verdict == att'.page
          IN /\ read.error => verdict = "denied"
             /\ ~read.error /\ ~read.stateOk => verdict = "state_mismatch"
             /\ ~read.error /\ read.stateOk /\ ~read.code =>
                  verdict = "no_code"
             /\ ~read.error /\ read.stateOk /\ read.code => verdict = "ok"
             /\ att.wfc = "pending" /\ verdict # "ok" =>
                  /\ att'.wfc = "rejected"
                  /\ att'.outcome = verdict
             /\ att.wfc = "pending" /\ verdict = "ok" =>
                  att'.wfc = "resolved"
             /\ att'.exchanges = att.exchanges
             /\ requests' = requests]_vars
  /\ [][AuthenticateResumes =>
          IF att.wfc = "rejected"
            THEN /\ att'.phase = "failed"
                 /\ att'.outcome = att.outcome
                 /\ att'.exchanges = att.exchanges
                 /\ requests' = requests
            ELSE /\ att'.phase = "exchanging"
                 /\ att'.exchanges = att.exchanges + 1
                 /\ requests' = requests + 1]_vars
  /\ [][att'.exchanges > att.exchanges => att.wfc = "resolved"]_vars

\* C9 witness: authenticate() has failed with authorization-denied after a
\* callback with an error parameter, a wrong state and a code.
C9_Witness ==
  /\ att.phase = "failed"
  /\ att.cb = <<[error |-> TRUE, stateOk |-> FALSE, code |-> TRUE]>>
  /\ att.page = "denied"
  /\ att.outcome = "denied"
  /\ ~att.late

\* C10 as stated: once the wait for the callback has settled, a further
\* request that reaches the callback server or the timer firing changes
\* neither the outcome nor the number of code exchanges nor the token
\* record or file.
C10_FirstEventWins ==
  [][att.wfc # "pending" /\ ev' \in {"request", "timer"} =>
       /\ att'.wfc = att.wfc
       /\ att'.phase = att.phase
       /\ att'.outcome = att.outcome
       /\ att'.exchanges = att.exchanges
       /\ requests' = requests
       /\ tokenData' = tokenData
       /\ file' = file]_vars

(* ================== claims: token lifecycle, continued ================= *)

\* C12: getAccessToken() called when no record is held fails with the
\* not-authenticated error and returns nothing, sends no request to the
\* token endpoint, and leaves the held record (none) and the token file as
\* they were.
C12_NotAuthenticated ==
  [][\A c \in Calls :
       GetAccessToken(c) /\ tokenData = Null =>
         /\ calls'[c].status = "threw"
         /\ calls'[c].err = "not_authenticated"
         /\ calls'[c].value = 0
         /\ calls'[c].sent = 0
         /\ requests' = requests
         /\ tokenData' = Null
         /\ file' = file]_vars

\* C12 witness: in a program started without a token file a getAccessToken()
\* call has failed with not-authenticated; nothing was sent, nothing written.
C12_Witness ==
  /\ proc = "host"
  /\ tokenData = Null
  /\ file = NoFile
  /\ requests = 0
  /\ \E c \in Calls :
       /\ calls[c].op = "getAccessToken"
       /\ calls[c].status = "threw"
       /\ calls[c].err = "not_authenticated"

\* C13: refreshAccessToken() sends one refresh request whenever the held
\* record has a refresh_token, whatever its expires_at and the clock; with no
\* refresh_token (or no record) it fails with the no-refresh-token error and
\* sends nothing.  The call itself changes neither the record nor the file.
C13_ForcedRefresh ==
  [][\A c \in Calls :
       RefreshAccessToken(c) =>
         /\ IF tokenData # Null /\ tokenData[1].refresh_token # 0
              THEN /\ calls'[c].status = "awaiting"
                   /\ calls'[c].sent = 1
                   /\ requests' = requests + 1
              ELSE /\ calls'[c].status = "threw"
                   /\ calls'[c].err = "no_refresh_token"
                   /\ calls'[c].sent = 0
                   /\ requests' = requests
         /\ tokenData' = tokenData
         /\ file' = file]_vars

\* C13 witness: a refreshAccessToken() call has its request in flight while
\* the held access token is still valid for more than the buffer.
C13_Witness ==
  \E c \in Calls :
    /\ calls[c].op = "refreshAccessToken"
    /\ calls[c].status = "awaiting"
    /\ calls[c].sent = 1
    /\ tokenData # Null
    /\ tokenData[1].expires_at > now + 60000

\* C14 as stated: clearTokens() leaves no held record and no token file,
\* whatever the file system does.
C14_AsStated ==
  [][\A unlinkOk \in BOOLEAN :
       ClearTokens(unlinkOk) => tokenData' = Null /\ file' = NoFile]_vars

\* C14 (amended): clearTokens() leaves no held record, and no token file
\* unless removing the file fails: then the file stays as it was (the error
\* is logged, not raised).  Called when no record is held and no file
\* exists (a second call in a row, or a store that never existed) it
\* changes nothing.  It raises nothing and sends nothing, and right after it
\* hasValidTokens() is false and getAccessToken() fails with the
\* not-authenticated error.
C14_ClearTokens ==
  [][\A unlinkOk \in BOOLEAN :
       ClearTokens(unlinkOk) =>
         /\ tokenData' = Null
         /\ file = NoFile => file' = NoFile
         /\ file # NoFile /\ unlinkOk => file' = NoFile
         /\ file # NoFile /\ ~unlinkOk => file' = file
         /\ tokenData = Null /\ file = NoFile =>
              tokenData' = tokenData /\ file' = file
         /\ calls' = calls
         /\ requests' = requests
         /\ HasValidTokens(tokenData', now') = FALSE
         /\ GetAccessTokenStart(tokenData', now').status = "threw"
         /\ GetAccessTokenStart(tokenData', now').err = "not_authenticated"]_vars

\* C14 witness: a program that held a record (a getAccessToken() call
\* returned a token) has cleared it: no record, no file, and a later
\* getAccessToken() call has failed with not-authenticated.
C14_Witness ==
  /\ proc = "host"
  /\ tokenData = Null
  /\ file = NoFile
  /\ calls[1].op = "getAccessToken" /\ calls[1].status = "returned"
  /\ calls[2].op = "getAccessToken" /\ calls[2].status = "threw"
  /\ calls[2].err = "not_authenticated"

\* The file holds a token record: JSON with an access_token and an
\* expires_at (the refresh_token may be missing).
WellFormedFile(f) ==
  /\ f # NoFile
  /\ f[1].kind = "json"
  /\ f[1].value # Null
  /\ f[1].value[1].access_token # Undefined

\* C15 as stated: a program constructed on a missing file or on a file whose
\* content is not a well-formed token record holds no record, so that
\* hasValidTokens() is false and getAccessToken() fails with the
\* not-authenticated error.
C15_LoadFailsSoft ==
  [][proc = "none" /\ proc' = "host" /\ ~WellFormedFile(file) =>
       /\ tokenData' = Null
       /\ HasValidTokens(tokenData', now') = FALSE
       /\ GetAccessTokenStart(tokenData', now').err = "not_authenticated"]_vars

\* C17: refresh is not single-flight.  A getAccessToken() call that starts
\* while another call's refresh request is in flight, with the held record
\* still within the 60-second buffer, sends a refresh request of its own;
\* starting a call never changes the held record, so the record stays stale
\* for the second caller.
C17_NotSingleFlight ==
  [][\A c \in Calls :
       /\ (GetAccessToken(c)
            /\ (\E d \in Calls \ {c} : calls[d].status = "awaiting")
            /\ tokenData # Null
            /\ tokenData[1].expires_at <= now + 60000
            /\ tokenData[1].refresh_token # 0) =>
              /\ calls'[c].status = "awaiting"
              /\ calls'[c].sent = 1
              /\ requests' = requests + 1
       /\ GetAccessToken(c) \/ RefreshAccessToken(c) =>
            tokenData' = tokenData /\ file' = file]_vars

\* C17 witness: two getAccessToken() calls each have a refresh request in
\* flight at once, on a record within the 60-second buffer.
C17_Witness ==
  /\ \A c \in Calls :
       /\ calls[c].op = "getAccessToken"
       /\ calls[c].status = "awaiting"
       /\ calls[c].sent = 1
  /\ requests = 2
  /\ tokenData # Null
  /\ tokenData[1].expires_at <= now + 60000

\* C18 as stated: hasValidTokens() answers what loading the token file at
\* the moment of the call and applying the validity rule would give.  The
\* program holds a well-formed record that it has neither refreshed nor
\* cleared, so only another process can have changed the file since the
\* construction.
C18_AnswersForStoreNow ==
  (/\ hv # NoHv
   /\ requests = 0
   /\ tokenData # Null
   /\ tokenData[1].access_token # Undefined) =>
    hv[1] = HasValidTokens(LoadTokens(file), now)

\* C20 as stated: when a refresh request is rejected with a response that
\* has an error detail, the error refreshAccessToken() fails with carries
\* that detail; likewise the error authenticate() fails with on a rejected
\* code exchange.
C20_ErrorCarriesDetail ==
  /\ [][\A c \in Calls, detail \in Details :
          RefreshFailure(c, detail) /\ detail # 0 =>
            calls'[c].status = "threw" /\ calls'[c].detail = detail]_vars
  /\ [][\A detail \in Details :
          ExchangeFailure(detail) /\ detail # 0 =>
            att'.phase = "failed" /\ att'.detail = detail]_vars

(* ================ claims: authorization flow, continued ================ *)

\* C11 as stated: every authenticate() call eventually settles, in success
\* or in failure, unless its process ends first: an attempt that awaits its
\* callback or the answer to its code exchange does not do so for ever.
C11_Settles ==
  (att.phase \in {"awaiting", "resuming", "exchanging"})
    ~> (att.phase \in {"done", "failed"} \/ proc = "none")

\* C16 as stated: an authenticate() call made while an attempt of the same
\* process is awaiting its callback leaves that attempt as it is: the
\* process lives on, the attempt still awaits its callback with its
\* listener bound, its timer armed and its expected state.
C16_ReentrantAuthenticate ==
  [][AuthenticateAgain =>
       /\ proc' = proc
       /\ att'.phase = "awaiting"
       /\ att'.expected = att.expected
       /\ att'.bound
       /\ att'.timer
       /\ att'.due = att.due]_vars

(* ===================== claims: a session with login ==================== *)

\* The step is a successful refresh, of the one caller, whose write of the
\* token file has outcome w.
RefreshSaves(w) ==
  \E rt \in RespRefreshTokens, ein \in ExpiresInSet :
    /\ RefreshResponse(1, rt, ein, w)
    /\ ~RefreshThrows(tokenData, TokenResponse(issued, rt, ein))

\* The step is a successful code exchange whose write of the token file has
\* outcome w.
ExchangeSaves(w) ==
  \E rt \in ExchangeRefreshTokens, ein \in ExpiresInSet :
    ExchangeResponse(rt, ein, w)

\* The operation of the step has succeeded (the refreshing call has
\* returned; authenticate() has returned and auth-cli login, if it ends,
\* ends with status 0), and the program, while it runs, holds the record with the access token just issued, which a
\* getAccessToken() call that needs no refresh returns.
SucceededInMemory ==
  /\ RefreshSaves("written") \/ RefreshSaves("refused")
       \/ RefreshSaves("truncated") => calls'[1].status = "refreshed"
  /\ ExchangeSaves("written") \/ ExchangeSaves("refused")
       \/ ExchangeSaves("truncated") =>
       /\ att'.phase = "done" /\ att'.outcome = "success"
       /\ exit' \in {NoExit, ExitRec("auth-cli login", 0, "done")}
  /\ proc' = proc =>
       /\ tokenData' # Null
       /\ tokenData'[1].access_token = issued + 1
       /\ tokenData'[1].expires_at > now' + 60000 =>
            GetAccessTokenStart(tokenData', now') =
              NewCall("getAccessToken", "returned", issued + 1, "", 0)

\* C19 as stated: when the write of the token file fails after a successful
\* code exchange or refresh, the operation succeeds with the new record
\* held in memory, and the token file keeps its previous content.
C19_AsStated ==
  [][\A w \in WriteOutcomes \ {"written"} :
       RefreshSaves(w) \/ ExchangeSaves(w) =>
         SucceededInMemory /\ file' = file]_vars

(* ================== claims: expiry, interleavings ====================== *)

\* The held record's expires_at after this step is not what it was before.
ExpiresAtSet ==
  /\ tokenData' # Null
  /\ tokenData = Null \/ tokenData'[1].expires_at # tokenData[1].expires_at

\* C21: a record built from a token response, by a refresh or by a code
\* exchange, has expires_at = the clock value at which the response is
\* processed + the response's expires_in * 1000 (the record held
\* afterwards, and the record a code exchange stores, also when auth-cli
\* login ends in that step); and a step that gives the
\* held record another expires_at is one of these two, or the constructor
\* of a starting program reading the stored record back from the file.
C21_ExpiresAt ==
  [][/\ \A ein \in ExpiresInSet :
          /\ ((\E c \in Calls, rt \in RespRefreshTokens, w \in WriteOutcomes :
                  RefreshResponse(c, rt, ein, w)) /\ tokenData' # Null)
               => tokenData'[1].expires_at = now + ein * 1000
          /\ (\E rt \in ExchangeRefreshTokens, w \in WriteOutcomes :
                  \/ ExchangeResponse(rt, ein, w)
                  \/ PriorExchangeResponse(rt, ein, w))
               => (proc' = proc =>
                     /\ tokenData' # Null
                     /\ tokenData'[1].expires_at = now + ein * 1000)
          /\ (\E rt \in ExchangeRefreshTokens :
                  \/ ExchangeResponse(rt, ein, "written")
                  \/ PriorExchangeResponse(rt, ein, "written"))
               => /\ LoadTokens(file') # Null
                  /\ LoadTokens(file')[1].expires_at = now + ein * 1000
     /\ ExpiresAtSet =>
          \/ \E c \in Calls : /\ calls[c].status = "awaiting"
                              /\ calls'[c].status \in {"returned", "refreshed"}
          \/ att.phase = "exchanging" /\ att'.phase = "done"
          \/ att.prior > 0 /\ ev' = "prior_done"
          \/ proc = "none" /\ proc' # "none" /\ tokenData' = LoadTokens(file)
    ]_vars

\* C21 witness: at clock value 1000 a getAccessToken() call has refreshed
\* the record of a code exchange, and the record expires 60 s later.
C21_Witness ==
  /\ att.outcome = "success"
  /\ calls[1].op = "getAccessToken"
  /\ calls[1].status = "returned"
  /\ calls[1].sent = 1
  /\ now = 1000
  /\ tokenData # Null
  /\ tokenData[1].expires_at = 1000 + 60 * 1000

\* C25: a step in which authenticate() fails (authorization denied, state
\* mismatch, missing code, timeout, failed code exchange) leaves the token
\* file and, in a process that goes on, the held record as they were; and
\* the only step of the authorization flow that replaces either of them is
\* a code exchange that succeeds (that of the attempt, or the pending one of
\* an earlier authenticate() call).
C25_FailureKeepsTokens ==
  [][/\ (att.phase \in {"awaiting", "resuming", "exchanging"}
         /\ att'.phase = "failed")
          => /\ file' = file
             /\ proc' = proc => tokenData' = tokenData
     /\ (\E detail \in Details : PriorExchangeFailure(detail))
          => file' = file /\ tokenData' = tokenData
     /\ (file' # file \/ (proc' = proc /\ tokenData' # tokenData))
          => \/ att.phase = "exchanging" /\ att'.phase = "done"
             \/ att.prior > 0 /\ ev' = "prior_done"
    ]_vars

\* C25 witness: a host program that holds the stored record has seen its
\* code exchange fail.
C25_Witness ==
  /\ proc = "host"
  /\ att.phase = "failed"
  /\ att.outcome = "exchange_failed"
  /\ tokenData # Null
  /\ file # NoFile
  /\ tokenData = LoadTokens(file)

\* C26 as stated: a request whose path is not /callback, received while the
\* attempt is awaiting its callback, does not settle it: the process lives
\* on, the attempt stays awaiting with its promise pending, the listener
\* stays bound and the timer armed, and no code exchange starts.
C26_OtherPathIgnored ==
  [][\A r \in Requests :
       (/\ att.phase = "awaiting"
        /\ r[1] # "/callback"
        /\ \E via \in Vias : CallbackRequest(via, r[1], r[2], r[3], r[4]))
         => /\ proc' = proc
            /\ att'.phase = "awaiting"
            /\ att'.wfc = "pending"
            /\ att'.bound
            /\ att'.timer
            /\ att'.exchanges = att.exchanges
            /\ requests' = requests]_vars

\* C27: in a host program that holds no record while no token file
\* exists (the state clearTokens() leaves), no step other than the
\* success of a code exchange brings a held record or a token file back;
\* a refresh request that was in flight when clearTokens() ran is no
\* exception.
C27_ClearedStaysCleared ==
  [][(/\ proc = "host" /\ proc' = "host"
      /\ tokenData = Null /\ file = NoFile
      /\ ~(att.phase = "exchanging" /\ att'.phase = "done"))
       => (tokenData' = Null /\ file' = NoFile)]_vars

(* ---------------- the token file seen by another process --------------- *)

\* The file between the open of fs.writeFileSync, which truncates it, and
\* the end of its writes: empty, or a proper prefix of the JSON text.
Partial == [kind |-> "partial", value |-> Null]

\* A process is inside the writeFileSync of saveTokens().
Saving ==
  /\ file = <<Partial>>
  /\ \E c \in Calls : calls[c].status = "awaiting"

\* The token endpoint answers call c's refresh request with a token
\* response: the record is built, and saveTokens() opens the file.
RefreshSaveOpen(c, rt, ein) ==
  /\ calls[c].status = "awaiting"
  /\ ~RefreshThrows(tokenData, TokenResponse(issued, rt, ein))
  /\ tokenData' = <<RefreshedRecord(tokenData, TokenResponse(issued, rt, ein),
                                    now)>>
  /\ file' = <<Partial>>
  /\ issued' = issued + 1
  /\ NoObs
  /\ UNCHANGED <<now, proc, calls, requests, att>>

\* writeFileSync ends, having written the whole text or failed on the way
\* (the file is left without the whole text; saveTokens() logs the error),
\* and refreshAccessToken() returns.
RefreshSaveEnds(c, write) ==
  /\ calls[c].status = "awaiting"
  /\ file' = SaveTokens(file, tokenData, write)
  /\ CliRefreshSettled(TRUE, c,
       [calls[c] EXCEPT !.status = IF calls[c].op = "getAccessToken"
                                     THEN "refreshed" ELSE "returned"],
       tokenData)
  /\ UNCHANGED <<now, requests, issued>>

\* auth-cli status, run as a process of its own beside the program that
\* holds a SpotifyAuth on the same token file.
AuthCliStatusBeside ==
  /\ proc # "none"
  /\ Obs(NoHv, ExitRec("auth-cli status", 0,
                        IF HasValidTokens(LoadTokens(file), now)
                          THEN "authenticated" ELSE "not_authenticated"), "")
  /\ UNCHANGED <<now, file, proc, tokenData, calls, requests, issued, att>>

\* A token file that holds a record with a refresh token.
InitStored == Init /\ file = <<Stringify(<<TokenRec(0, 1, 61000)>>)>>

\* A program that refreshes the stored record, its save seen step by step,
\* and another process that reads the file.  A process inside writeFileSync
\* does nothing else until the write ends.
NextShared ==
  \/ ~Saving /\ Tick(Instants)
  \/ ~Saving /\ StartHost
  \/ ~Saving /\ GetAccessToken(1)
  \/ ~Saving /\ RefreshAccessToken(1)
  \/ \E rt \in RespRefreshTokens, ein \in ExpiresInSet :
        ~Saving /\ RefreshSaveOpen(1, rt, ein)
  \/ \E detail \in Details : ~Saving /\ RefreshFailure(1, detail)
  \/ \E write \in {"written", "truncated"} :
        Saving /\ RefreshSaveEnds(1, write)
  \/ ~Saving /\ GetAccessTokenReturn(1)
  \/ AuthCliStatusBeside
  \/ ~Saving /\ Exit

SpecShared == InitStored /\ [][NextShared]_vars

\* C22: while the program that holds the record runs, the token file having
\* been a complete record at the start, every read of the file by another
\* process yields a complete record (the previous one, or the one being
\* saved): its loadTokens() never comes away with no record.
C22_ReaderSeesARecord ==
  [][(exit' # NoExit /\ exit'[1].prog = "auth-cli status")
       => LoadTokens(file) # Null]_vars

(* --------------------------- the API client ---------------------------- *)

\* HTTP status codes of failed Spotify API responses.
ErrorStatuses == {400, 401, 403, 404, 429, 500, 503}

\* How an API request can fail: an error response with its status, or no
\* response (status 0): the 10-second timeout of the client, or a network
\* error.
ApiFailures ==
  {[status |-> s, timeout |-> FALSE] : s \in ErrorStatuses}
  \cup {[status |-> 0, timeout |-> t] : t \in BOOLEAN}

\* The value of the Authorization header the interceptor sets.
Bearer(token) == <<"Bearer", token>>

\* The Error handleError() throws for a failed request (an axios error), by
\* the prefix of its message.
HandleError(f) ==
  IF f.status = 401 THEN "Unauthorized"
  ELSE IF f.status = 403 THEN "Forbidden"
  ELSE IF f.status = 404 THEN "Not found"
  ELSE IF f.status = 429 THEN "Rate limited"
  ELSE IF f.status = 500 THEN "Spotify API error"
  ELSE IF f.timeout THEN "Request timeout"
  ELSE "default"

\* A tool handler calls a method of the SpotifyClient; before the request
\* is dispatched the request interceptor calls getToken(), which calls
\* getAccessToken() of the SpotifyAuth.
ApiRequest(c) ==
  /\ proc = "server"
  /\ calls[c].status \in {"idle", "sent", "failed", "done"}
  /\ GetAccessToken(c)

InterceptorSends_Held(c) ==
  /\ proc = "server"
  /\ calls[c].status = "returned"
  /\ calls' = [calls EXCEPT
       ![c].status = "sent",
       ![c].auth = <<Bearer(tokenData[1].access_token)>>]
  /\ NoObs
  /\ UNCHANGED <<now, file, proc, tokenData, requests, issued, att>>

\* getAccessToken() has returned: the interceptor sets the Authorization
\* header and the request is dispatched.
InterceptorSends(c) ==
  /\ proc = "server"
  /\ calls[c].status = "returned"
  /\ calls' = [calls EXCEPT ![c].status = "sent",
                            ![c].auth = <<Bearer(calls[c].value)>>]
  /\ NoObs
  /\ UNCHANGED <<now, file, proc, tokenData, requests, issued, att>>

\* getAccessToken() has thrown: the interceptor rejects, nothing is
\* dispatched, and the client method's catch passes the Error (not an
\* axios error) to handleError(), which wraps its text in the default
\* message.
InterceptorRejects(c) ==
  /\ proc = "server"
  /\ calls[c].status = "threw"
  /\ calls' = [calls EXCEPT ![c].status = "failed"]
  /\ NoObs
  /\ UNCHANGED <<now, file, proc, tokenData, requests, issued, att>>

\* The API answers the request with a 2xx response; the method returns its
\* data.
ApiResponse(c) ==
  /\ proc = "server"
  /\ calls[c].status = "sent"
  /\ calls' = [calls EXCEPT ![c].status = "done"]
  /\ Obs(NoHv, NoExit, "api_ok")
  /\ UNCHANGED <<now, file, proc, tokenData, requests, issued, att>>

\* The request fails; the method's catch throws what handleError() throws.
ApiFailure(c, f) ==
  /\ proc = "server"
  /\ calls[c].status = "sent"
  /\ calls' = [calls EXCEPT ![c].status = "failed",
                            ![c].err = HandleError(f),
                            ![c].detail = f.status]
  /\ Obs(NoHv, NoExit, "api_error")
  /\ UNCHANGED <<now, file, proc, tokenData, requests, issued, att>>

\* A token file with a record that is valid at the start.
InitValid == Init /\ file = <<Stringify(<<TokenRec(0, 1, 61000)>>)>>

\* The MCP server and its API client; every save of a refreshed record
\* succeeds.
NextClient ==
  \/ Tick(Instants)
  \/ StartServer
  \/ \E c \in Calls : ApiRequest(c)
  \/ \E c \in Calls, rt \in RespRefreshTokens, ein \in ExpiresInSet :
        RefreshResponse(c, rt, ein, "written")
  \/ \E c \in Calls, detail \in Details : RefreshFailure(c, detail)
  \/ \E c \in Calls : GetAccessTokenReturn(c)
  \/ \E c \in Calls : InterceptorSends(c)
  \/ \E c \in Calls : InterceptorRejects(c)
  \/ \E c \in Calls : ApiResponse(c)
  \/ \E c \in Calls, f \in ApiFailures : ApiFailure(c, f)
  \/ Exit

SpecClient == InitValid /\ [][NextClient]_vars

(* ========================= claims: API client ========================== *)

\* C23: an API request of the client is dispatched only when the
\* getAccessToken() call the interceptor made for it has returned, and its
\* Authorization header is Bearer followed by the value that call
\* returned; a request begun while the held record is within the buffer
\* does not get its token before the refresh has answered, and the token
\* it then gets is the access_token held when getAccessToken() resumes, one
\* a refresh response has brought (that of its own refresh, or of a refresh
\* of another request answered in between); and when getAccessToken() has
\* thrown no request is dispatched.
C23_RequestsCarryToken ==
  [][\A c \in Calls :
       /\ (calls[c].auth = <<>> /\ calls'[c].auth # <<>>)
            => /\ calls[c].status = "returned"
               /\ calls'[c].status = "sent"
               /\ calls'[c].auth = <<Bearer(calls[c].value)>>
       /\ (ApiRequest(c) /\ NeedsRefresh(tokenData, now))
            => calls'[c].status \in {"awaiting", "threw"}
       /\ (calls[c].status = "awaiting" /\ calls'[c].status = "refreshed")
            => /\ tokenData'[1].access_token = issued + 1
               /\ tokenData'[1].access_token # tokenData[1].access_token
       /\ (calls[c].status = "refreshed" /\ calls'[c].status # "refreshed"
           /\ proc' = proc)
            => /\ calls'[c].status = "returned"
               /\ calls'[c].value = tokenData[1].access_token
               /\ calls'[c].value \in 1..issued
       /\ calls[c].status \in {"awaiting", "refreshed"} =>
            calls'[c].auth = <<>>
       /\ calls[c].status = "threw" => calls'[c].auth = <<>>
       /\ calls'[c].status \in {"sent", "done"} => calls'[c].auth # <<>>
    ]_vars

\* C23 witness: a request begun within the buffer has been dispatched
\* after its refresh, with the token of the refresh response, while the
\* other request, whose refresh failed, has been given up.
C23_Witness ==
  /\ calls[1].status = "sent"
  /\ calls[1].sent = 1
  /\ calls[1].auth = <<Bearer(tokenData[1].access_token)>>
  /\ tokenData[1].access_token = 1
  /\ calls[2].status = "failed"
  /\ calls[2].err = "refresh_failed"
  /\ calls[2].auth = <<>>

\* C24: a request that was dispatched and failed with an error response has
\* thrown the Error of its status: Unauthorized for 401, Forbidden for 403,
\* Not found for 404, Rate limited for 429, and the Spotify server error
\* for every status from 500 to 599.
C24_ClassifiedByStatus ==
  \A c \in Calls :
    (calls[c].status = "failed" /\ calls[c].auth # <<>>)
      => /\ calls[c].detail = 401 => calls[c].err = "Unauthorized"
         /\ calls[c].detail = 403 => calls[c].err = "Forbidden"
         /\ calls[c].detail = 404 => calls[c].err = "Not found"
         /\ calls[c].detail = 429 => calls[c].err = "Rate limited"
         /\ (calls[c].detail >= 500 /\ calls[c].detail <= 599)
              => calls[c].err = "Spotify API error"

(* --------------------------- the episode tools ------------------------- *)

\* The page size the search tool asks for, and the step of its offset.
PAGE_SIZE == 50

\* The number of collected episodes at which the search tool stops fetching.
COLLECT_LIMIT == 500

\* Pages one run of the search tool fetches at most in the model.
MaxPages == 12

\* Numbers of items in a page of saved episodes.
PageSizes == {0, 20, 50}

\* The `next` field of a page: a URL, null, or not there (undefined).
NextValues == {"url", "null", "absent"}

\* Offsets of a page, as the API echoes them.
Offsets == {0, 20, 50}

\* Durations in milliseconds: minutes 0, 1 and 45, seconds around the
\* padding and the minute boundaries, milliseconds around the rounding
\* boundary.
Durations ==
  {m * 60000 + s * 1000 + d :
     m \in {0, 1, 45}, s \in {0, 5, 9, 10, 32, 59}, d \in {0, 1, 499, 500, 999}}

\* (x / 1000).toFixed(0) for an integer x >= 0, as a number: the nearest
\* integer, the larger one of two equally near.
ToFixed0(x) == (x + 500) \div 1000

\* The decimal digits of n < 100, as toFixed writes them.
DigitsOf(n) == IF n < 10 THEN <<n>> ELSE <<n \div 10, n % 10>>

\* The number a string of digits stands for (parseInt).
ParseInt(ds) == IF Len(ds) = 1 THEN ds[1] ELSE 10 * ds[1] + ds[2]

\* formatDuration(ms): "Unknown" for a falsy ms, else the text
\* `${minutes}:${seconds}`, seconds with a "0" in front when below 10.
\* The text is given by its parts: minutes as a number, seconds as digits.
FormatDuration(ms) ==
  IF ms = 0 THEN [unknown |-> TRUE, minutes |-> 0, seconds |-> <<>>]
  ELSE LET minutes == ms \div 60000
           seconds == DigitsOf(ToFixed0(ms % 60000))
       IN [unknown |-> FALSE,
           minutes |-> minutes,
           seconds |-> IF ParseInt(seconds) < 10 THEN <<0>> \o seconds
                                                 ELSE seconds]

\* A page of saved episodes as the API returns it, items by their number.
Pages ==
  [offset : Offsets, items : PageSizes, next : NextValues]

\* The output object of spotify_get_saved_episodes in JSON format (its
\* pagination fields): has_more is `response.next !== null`, next_offset is
\* `response.next ? offset + items.length : null`.
SavedEpisodesJson(response) ==
  [count |-> response.items,
   offset |-> response.offset,
   has_more |-> response.next # "null",
   next_offset |-> IF response.next = "url"
                     THEN <<response.offset + response.items>> ELSE <<>>]

LoopContinues_Inclusive(hasMore, collected) ==
  hasMore /\ collected <= COLLECT_LIMIT

\* The loop condition of spotify_search_saved_episodes.
LoopContinues(hasMore, collected) == hasMore /\ collected < COLLECT_LIMIT

\* The state of a tool handler that is about to run: formatDuration on a
\* duration; spotify_get_saved_episodes in JSON format at its start (pc
\* "start"; it is "waiting" inside `await spotifyClient.getSavedEpisodes`),
\* with its output and the Error it threw;
\* spotify_search_saved_episodes at the start of its loop (pc "loop"; it is
\* "waiting" inside `await spotifyClient.getSavedEpisodes`), with the
\* offsets it has requested, the `next` of the last page, whether a page
\* with a non-null `next` has carried fewer than PAGE_SIZE items, and the
\* Error it threw.
ToolCalls ==
  {[fn |-> "formatDuration", ms |-> d, out |-> <<>>] : d \in Durations}
  \cup {[fn |-> "getSavedEpisodes", pc |-> "start", out |-> <<>>,
          err |-> ""]}
  \cup {[fn |-> "searchSavedEpisodes", pc |-> "loop", allEpisodes |-> 0,
         fetchOffset |-> 0, hasMore |-> TRUE, offsets |-> <<>>,
         lastNext |-> "", short |-> FALSE, err |-> ""]}

\* The variables of the token lifecycle and the authorization flow.
auth_vars ==
  <<now, file, proc, tokenData, calls, requests, issued, att, hv, exit, ev>>

\* The tools run in the MCP server, started on a stored record that is
\* valid at the start.
InitTools ==
  /\ InitAuth
  /\ file = <<Stringify(<<TokenRec(0, 1, 61000)>>)>>
  /\ tool \in ToolCalls

\* Clock values (ms) while a tool runs: the stored record valid, and within
\* the buffer.
ToolInstants == {999, 1000}

\* formatDuration is applied to the duration of an episode.
FormatDurationCall ==
  /\ tool.fn = "formatDuration"
  /\ tool.out = <<>>
  /\ tool' = [tool EXCEPT !.out = <<FormatDuration(tool.ms)>>]
  /\ UNCHANGED auth_vars

\* A handler of the MCP server is inside
\* `await spotifyClient.getSavedEpisodes(...)`.
Waiting ==
  /\ proc = "server"
  /\ tool.fn \in {"getSavedEpisodes", "searchSavedEpisodes"}
  /\ tool.pc = "waiting"

\* The handler of spotify_get_saved_episodes is called: it reads its
\* parameters, calls getSavedEpisodes(limit, offset, market) and waits for
\* it.
GetSavedEpisodesCall ==
  /\ proc = "server"
  /\ tool.fn = "getSavedEpisodes"
  /\ tool.pc = "start"
  /\ tool' = [tool EXCEPT !.pc = "waiting"]
  /\ UNCHANGED auth_vars

\* The API answers the dispatched request with a page; getSavedEpisodes
\* returns it and the handler of spotify_get_saved_episodes builds its JSON
\* output from it.
GetSavedEpisodesJson(response) ==
  /\ Waiting
  /\ tool.fn = "getSavedEpisodes"
  /\ calls[1].status = "sent"
  /\ calls' = [calls EXCEPT ![1].status = "done"]
  /\ tool' = [tool EXCEPT !.pc = "done",
                          !.out = <<SavedEpisodesJson(response)>>]
  /\ hv' = NoHv /\ exit' = NoExit /\ ev' = "api_ok"
  /\ UNCHANGED <<now, file, proc, tokenData, requests, issued, att>>

\* The search handler of the MCP server is at pc.
Searching(pc) ==
  /\ proc = "server"
  /\ tool.fn = "searchSavedEpisodes"
  /\ tool.pc = pc

\* A round of the page-fetch loop begins: the handler calls
\* getSavedEpisodes(50, fetchOffset) and waits for it.
FetchRequest ==
  /\ Searching("loop")
  /\ LoopContinues(tool.hasMore, tool.allEpisodes)
  /\ Len(tool.offsets) < MaxPages
  /\ tool' = [tool EXCEPT
       !.offsets = Append(tool.offsets, tool.fetchOffset),
       !.pc = "waiting"]
  /\ UNCHANGED auth_vars

\* The request interceptor runs for the request of the waiting handler: it
\* calls getAccessToken(), which may have to refresh the record first.
FetchToken ==
  /\ Waiting
  /\ calls[1].status \in {"idle", "done"}
  /\ ApiRequest(1)

\* The API answers the dispatched request with a page; getSavedEpisodes
\* returns it and the handler finishes the round with it.
FetchPage(items, next) ==
  /\ Searching("waiting")
  /\ calls[1].status = "sent"
  /\ calls' = [calls EXCEPT ![1].status = "done"]
  /\ tool' = [tool EXCEPT
       !.pc = "loop",
       !.allEpisodes = tool.allEpisodes + items,
       !.hasMore = (next # "null"),
       !.fetchOffset = tool.fetchOffset + PAGE_SIZE,
       !.lastNext = next,
       !.short = tool.short \/ (next # "null" /\ items < PAGE_SIZE)]
  /\ hv' = NoHv /\ exit' = NoExit /\ ev' = "api_ok"
  /\ UNCHANGED <<now, file, proc, tokenData, requests, issued, att>>

\* The dispatched request fails: getSavedEpisodes throws what handleError()
\* throws, and the handler with it.
FetchFails(f) ==
  /\ Waiting
  /\ calls[1].status = "sent"
  /\ calls' = [calls EXCEPT ![1].status = "failed",
                            ![1].err = HandleError(f),
                            ![1].detail = f.status]
  /\ tool' = [tool EXCEPT !.pc = "threw", !.err = HandleError(f)]
  /\ hv' = NoHv /\ exit' = NoExit /\ ev' = "api_error"
  /\ UNCHANGED <<now, file, proc, tokenData, requests, issued, att>>

\* getAccessToken() has thrown: the interceptor rejects, nothing is
\* dispatched, getSavedEpisodes throws the Error wrapped by handleError(),
\* and the handler with it.
FetchRejected ==
  /\ Waiting
  /\ calls[1].status = "threw"
  /\ calls' = [calls EXCEPT ![1].status = "failed"]
  /\ tool' = [tool EXCEPT !.pc = "threw", !.err = calls[1].err]
  /\ hv' = NoHv /\ exit' = NoExit /\ ev' = ""
  /\ UNCHANGED <<now, file, proc, tokenData, requests, issued, att>>

\* The loop condition fails: the handler goes on to filter what it has.
LoopEnds ==
  /\ tool.fn = "searchSavedEpisodes"
  /\ tool.pc = "loop"
  /\ ~LoopContinues(tool.hasMore, tool.allEpisodes)
  /\ tool' = [tool EXCEPT !.pc = "filter"]
  /\ UNCHANGED auth_vars

\* The tools in the MCP server: the handlers, the API client with the
\* token lifecycle behind it, and the clock.
NextTools ==
  \/ FormatDurationCall
  \/ GetSavedEpisodesCall
  \/ \E response \in Pages : GetSavedEpisodesJson(response)
  \/ StartServer
  \/ Tick(ToolInstants)
  \/ FetchRequest
  \/ FetchToken
  \/ \E rt \in RespRefreshTokens, ein \in ExpiresInSet :
        RefreshResponse(1, rt, ein, "written")
  \/ \E detail \in Details : RefreshFailure(1, detail)
  \/ GetAccessTokenReturn(1)
  \/ InterceptorSends(1)
  \/ \E items \in PageSizes, next \in NextValues : FetchPage(items, next)
  \/ \E f \in ApiFailures : FetchFails(f)
  \/ FetchRejected
  \/ LoopEnds

SpecTools == InitTools /\ [][NextTools]_vars

(* ========================= claims: episode tools ======================= *)

\* C28: the page-fetch loop requests the offsets 0, 50, 100, ... in order;
\* it requests a page only while the page before it had a non-null `next`
\* and fewer than 500 episodes are collected, and when it leaves the loop
\* the last page had a null `next` or at least 500 episodes are collected;
\* it waits for the answer to a request before it goes on (a page is
\* handled only when its request was dispatched and answered); and as long
\* as every page with a non-null `next` has carried 50 items, it has made
\* at most 10 requests.
C28_PageLoop ==
  [][tool'.fn = "searchSavedEpisodes"
       => /\ \A i \in 1..Len(tool'.offsets) :
               tool'.offsets[i] = (i - 1) * 50
          /\ tool'.offsets # tool.offsets
               => /\ tool.lastNext # "null"
                  /\ tool.allEpisodes < 500
                  /\ tool.pc = "loop"
                  /\ tool'.pc = "waiting"
          /\ tool.pc = "waiting" /\ tool'.pc = "loop"
               => /\ calls[1].status = "sent"
                  /\ tool'.offsets = tool.offsets
          /\ tool'.pc = "filter"
               => tool'.lastNext = "null" \/ tool'.allEpisodes >= 500
          /\ ~tool'.short => Len(tool'.offsets) <= 10
    ]_vars

\* C28 witness: ten pages of 50 items, each with a `next` URL, have been
\* fetched, and the loop has ended.
C28_Witness ==
  /\ tool.fn = "searchSavedEpisodes"
  /\ tool.pc = "filter"
  /\ Len(tool.offsets) = 10
  /\ tool.offsets[10] = 450
  /\ tool.allEpisodes = 500
  /\ tool.lastNext = "url"
  /\ ~tool.short

\* C29: for a positive duration, formatDuration gives M:SS with SS two
\* digits between 00 and 59 and M * 60 + SS a nearest whole number of
\* seconds to the duration.
C29_MinutesSeconds ==
  (tool.fn = "formatDuration" /\ tool.out # <<>> /\ tool.ms > 0)
    => LET o == tool.out[1]
           n == o.minutes * 60 + ParseInt(o.seconds)
       IN /\ ~o.unknown
          /\ Len(o.seconds) = 2
          /\ ParseInt(o.seconds) \in 0..59
          /\ 2 * (tool.ms - 1000 * n) <= 1000
          /\ 2 * (1000 * n - tool.ms) <= 1000

\* C30: in the JSON output of spotify_get_saved_episodes, has_more is true
\* exactly when next_offset is not null, and a next_offset that is not
\* null is offset + count, whether the page's `next` is a URL, null or
\* absent.
C30_HasMoreIffNextOffset ==
  (tool.fn = "getSavedEpisodes" /\ tool.out # <<>>)
    => LET o == tool.out[1]
       IN /\ o.has_more <=> o.next_offset # <<>>
          /\ o.next_offset # <<>> => o.next_offset[1] = o.offset + o.count

====
